---- MODULE Spec2Model ----
(***************************************************************************)
(* filemaker.py: streaming importer for Filemaker FMPXMLRESULT exports.    *)
(*                                                                         *)
(* Text is modelled as a sequence of one-character strings, so that the    *)
(* conversions (float, int, strptime, the flexitime pattern, strip) are    *)
(* computed character by character as the Python code computes them.       *)
(* Element names, attribute names and field names are atomic strings.      *)
(***************************************************************************)
EXTENDS Integers, Sequences, FiniteSets, TLC

VARIABLES
    nodes,      \* the heap of XMLNode objects, indexed by allocation order
    _depth,     \* FMPXMLHandler._depth: the stack of open nodes (node ids)
    fields,     \* FMPImporter.fields: the OrderedDict, as a sequence of 4-tuples
    database,   \* FMPImporter.database: a node id, 0 = the constructor's node
    importer,   \* which import_node the handler was given
    importLog,  \* the invocations of import_node, in order
    error,      \* the exception that left importfile, "none" while there is none
    open,       \* the parser's chain of open elements (element numbers)
    doc,        \* the elements the parser has delivered so far
    ended,      \* the end-tags the parser has delivered so far
    lastEvent,  \* the callback the parser made last
    conforming, \* whether the document follows the export grammar
    nchars,     \* the character-data events the parser has delivered
    arg,        \* the input of the pure conversions
    out         \* the result of the pure conversions

vars == <<nodes, _depth, fields, database, importer, importLog, error,
          open, doc, ended, lastEvent, conforming, nchars, arg, out>>

-----------------------------------------------------------------------------
(* Bounds of the model.                                                    *)

MaxNodes == 7       \* start-tags of a document that follows the grammar
MaxFreeNodes == 2   \* start-tags of an arbitrary well-formed document
MaxChars == 1       \* character-data events of a document
MaxLen == 4         \* length of the strings given to the conversions
MaxCols == 2        \* COL elements of a row given to format_node
MaxData == 2        \* DATA elements of one COL given to format_node

-----------------------------------------------------------------------------
(* Characters and strings.                                                 *)

Digits == {"0", "1", "2", "3", "4", "5", "6", "7", "8", "9"}

Whitespace == {" ", "\t", "\n", "\r"}

DigitVal(c) ==
    CASE c = "0" -> 0 [] c = "1" -> 1 [] c = "2" -> 2 [] c = "3" -> 3
      [] c = "4" -> 4 [] c = "5" -> 5 [] c = "6" -> 6 [] c = "7" -> 7
      [] c = "8" -> 8 [] c = "9" -> 9

\* The character at position i, or "" where the string has none.
At(s, i) == IF i \in 1..Len(s) THEN s[i] ELSE ""

IsDigit(c) == c \in Digits

RECURSIVE DigitsVal(_)
\* The number a string of decimal digits denotes.
DigitsVal(s) ==
    IF s = << >> THEN 0
    ELSE 10 * DigitsVal(SubSeq(s, 1, Len(s) - 1)) + DigitVal(s[Len(s)])

RECURSIVE LStrip(_)
LStrip(s) ==
    IF s # << >> /\ s[1] \in Whitespace THEN LStrip(Tail(s)) ELSE s

RECURSIVE RStrip(_)
RStrip(s) ==
    IF s # << >> /\ s[Len(s)] \in Whitespace
    THEN RStrip(SubSeq(s, 1, Len(s) - 1)) ELSE s

\* str.strip()
Strip(s) == RStrip(LStrip(s))

-----------------------------------------------------------------------------
(* Python values.                                                          *)

None == [type |-> "None"]

\* No conversion has been applied yet.
Pending == [type |-> "pending"]

Raise(exc) == [type |-> "raise", exc |-> exc]

Float(mant, exp) == [type |-> "float", mant |-> mant, exp |-> exp]

Date(y, m, d) == [type |-> "date", year |-> y, month |-> m, day |-> d]

Time(h, m, s) == [type |-> "time", hour |-> h, minute |-> m, second |-> s]

Text(s) == [type |-> "unicode", s |-> s]

-----------------------------------------------------------------------------
(* flexitime: the lenient time parser.                                     *)

IsSep(c) == c \in {".", ":"}

\* How many digits the hours group takes when the pattern is tried at i, 0 when
\* the pattern does not match there: \d{1,2} is greedy, and the group must be
\* followed by a separator and a digit of the minutes.
HoursLen(s, i) ==
    IF IsDigit(At(s, i)) /\ IsDigit(At(s, i + 1)) /\ IsSep(At(s, i + 2))
       /\ IsDigit(At(s, i + 3))
    THEN 2
    ELSE IF IsDigit(At(s, i)) /\ IsSep(At(s, i + 1)) /\ IsDigit(At(s, i + 2))
         THEN 1
         ELSE 0

\* pat.search: the leftmost position where the pattern matches, 0 when none.
SearchStart(s) ==
    IF \E i \in 1..Len(s) : HoursLen(s, i) > 0
    THEN CHOOSE i \in 1..Len(s) :
            /\ HoursLen(s, i) > 0
            /\ \A j \in 1..(i - 1) : HoursLen(s, j) = 0
    ELSE 0

\* How many digits the minutes group takes at ms (its first digit is there).
MinutesLen(s, ms) == IF IsDigit(At(s, ms + 1)) THEN 2 ELSE 1

\* How many digits the optional seconds group takes after a separator at p,
\* 0 when the group does not match.
SecondsLen(s, p) ==
    IF IsSep(At(s, p)) /\ IsDigit(At(s, p + 1))
    THEN (IF IsDigit(At(s, p + 2)) THEN 2 ELSE 1)
    ELSE 0

\* " ?(?P<ampm>[Ap][Mm])?" at q: the ampm group, empty when it does not match.
AmpmAt(s, q) ==
    IF At(s, q) = " "
    THEN (IF At(s, q + 1) \in {"A", "p"} /\ At(s, q + 2) \in {"M", "m"}
          THEN SubSeq(s, q + 1, q + 2) ELSE << >>)
    ELSE (IF At(s, q) \in {"A", "p"} /\ At(s, q + 1) \in {"M", "m"}
          THEN SubSeq(s, q, q + 1) ELSE << >>)

\* The groups, given the minutes at ms..p-1 and sl digits of seconds.
GroupsFrom(s, i, ms, p, sl) ==
    [hours   |-> SubSeq(s, i, ms - 2),
     minutes |-> SubSeq(s, ms, p - 1),
     seconds |-> IF sl > 0 THEN SubSeq(s, p + 1, p + sl) ELSE << >>,
     ampm    |-> AmpmAt(s, IF sl > 0 THEN p + 1 + sl ELSE p)]

\* The groups, given the minutes at ms.
GroupsAt(s, i, ms) ==
    GroupsFrom(s, i, ms, ms + MinutesLen(s, ms),
               SecondsLen(s, ms + MinutesLen(s, ms)))

\* matches.groupdict(): the groups of the match that starts at i.
TimeGroups(s, i) == GroupsAt(s, i, i + HoursLen(s, i) + 1)

\* datetime.time(h, m, s): ValueError outside 0..23, 0..59, 0..59.
datetime_time(h, m, s) ==
    IF h \in 0..23 /\ m \in 0..59 /\ s \in 0..59
    THEN Time(h, m, s)
    ELSE Raise("ValueError")

\* The hour after the two adjustments: 12 more for a 'pm' before noon
\* (parts['ampm'].lower() == 'pm'), and 0 for an hour above 23.
Hour24(h, ampm) ==
    IF ampm # << >> /\ ampm[1] = "p" /\ h < 12
    THEN (IF h + 12 > 23 THEN 0 ELSE h + 12)
    ELSE (IF h > 23 THEN 0 ELSE h)

\* The body of flexitime under "if matches".
TimeOf(parts) ==
    datetime_time(Hour24(DigitsVal(parts.hours), parts.ampm),
                  DigitsVal(parts.minutes), DigitsVal(parts.seconds))

flexitime(value) ==
    IF SearchStart(value) = 0 THEN None
    ELSE TimeOf(TimeGroups(value, SearchStart(value)))

-----------------------------------------------------------------------------
(* The Python library conversions the formatters call.                     *)

\* The fraction digits fp without their trailing zeros.
RECURSIVE DropZeros(_)
DropZeros(fp) ==
    IF fp # << >> /\ fp[Len(fp)] = "0"
    THEN DropZeros(SubSeq(fp, 1, Len(fp) - 1)) ELSE fp

\* The float of the digits ip before the point and fp after it.
FloatOf(ip, fp) == Float(DigitsVal(ip \o fp), Len(fp))

\* The place of the first point of value, after its end when it has none.
PointAt(value) ==
    IF \E k \in 1..Len(value) : value[k] = "."
    THEN CHOOSE k \in 1..Len(value) :
            value[k] = "." /\ \A j \in 1..(k - 1) : value[j] # "."
    ELSE Len(value) + 1

\* float(value) for a string of digits and points (all that re.sub leaves):
\* at most one point and at least one digit. The value is mant / 10^exp with
\* the trailing zeros of the fraction dropped, so that "42" and "42.0" agree.
float(value) ==
    IF Len(SelectSeq(value, LAMBDA c : c = ".")) > 1
       \/ SelectSeq(value, IsDigit) = << >>
    THEN Raise("ValueError")
    ELSE FloatOf(SubSeq(value, 1, PointAt(value) - 1),
                 DropZeros(SubSeq(value, PointAt(value) + 1, Len(value))))

\* int of the stripped text t: an optional sign, then digits only.
IntOf(t) ==
    IF t # << >> /\ t[1] \in {"+", "-"}
    THEN (IF Tail(t) = << >> \/ \E k \in 2..Len(t) : ~IsDigit(t[k])
          THEN Raise("ValueError")
          ELSE [type |-> "int",
                n |-> IF t[1] = "-" THEN 0 - DigitsVal(Tail(t))
                      ELSE DigitsVal(Tail(t))])
    ELSE (IF t = << >> \/ \E k \in 1..Len(t) : ~IsDigit(t[k])
          THEN Raise("ValueError")
          ELSE [type |-> "int", n |-> DigitsVal(t)])

\* int(value): surrounding whitespace, an optional sign, then digits only.
int(value) == IntOf(Strip(value))

\* How many characters the directive (or literal character) tok takes at
\* position p of s, 0 when it does not match: the alternatives of _strptime's
\* regular expressions, tried in their order.
DirectiveLen(tok, s, p) ==
    CASE tok = "%Y" ->
           IF \A k \in 0..3 : IsDigit(At(s, p + k)) THEN 4 ELSE 0
      [] tok = "%m" ->
           IF At(s, p) = "1" /\ At(s, p + 1) \in {"0", "1", "2"} THEN 2
           ELSE IF At(s, p) = "0" /\ At(s, p + 1) \in Digits \ {"0"} THEN 2
           ELSE IF At(s, p) \in Digits \ {"0"} THEN 1
           ELSE 0
      [] tok = "%d" ->
           IF At(s, p) = "3" /\ At(s, p + 1) \in {"0", "1"} THEN 2
           ELSE IF At(s, p) \in {"1", "2"} /\ IsDigit(At(s, p + 1)) THEN 2
           ELSE IF At(s, p) = "0" /\ At(s, p + 1) \in Digits \ {"0"} THEN 2
           ELSE IF At(s, p) \in Digits \ {"0"} THEN 1
           ELSE IF At(s, p) = " " /\ At(s, p + 1) \in Digits \ {"0"} THEN 2
           ELSE 0
      [] OTHER -> IF At(s, p) = tok THEN 1 ELSE 0

\* The fields found so far, with the n characters at p that tok matched.
Found(got, tok, s, p, n) ==
    CASE tok = "%Y" ->
           [got EXCEPT !.year = DigitsVal(SelectSeq(SubSeq(s, p, p + n - 1), IsDigit))]
      [] tok = "%m" ->
           [got EXCEPT !.month = DigitsVal(SelectSeq(SubSeq(s, p, p + n - 1), IsDigit))]
      [] tok = "%d" ->
           [got EXCEPT !.day = DigitsVal(SelectSeq(SubSeq(s, p, p + n - 1), IsDigit))]
      [] OTHER -> got

RECURSIVE MatchFormat(_, _, _, _)
RECURSIVE MatchRest(_, _, _, _, _)
\* The match of the format's tokens fmt against s from p on: the
\* fields found so far with the position after the match, or ok = FALSE.
MatchFormat(s, p, fmt, got) ==
    IF fmt = << >> THEN [got EXCEPT !.end = p]
    ELSE MatchRest(s, p, fmt, got, DirectiveLen(Head(fmt), s, p))

\* The match after the first token of fmt, which took n characters at p.
MatchRest(s, p, fmt, got, n) ==
    IF n = 0 THEN [got EXCEPT !.ok = FALSE]
    ELSE MatchFormat(s, p + n, Tail(fmt), Found(got, Head(fmt), s, p, n))

IsLeap(y) == (y % 4 = 0 /\ y % 100 # 0) \/ y % 400 = 0

DaysInMonth(y, m) ==
    IF m = 2 THEN (IF IsLeap(y) THEN 29 ELSE 28)
    ELSE IF m \in {4, 6, 9, 11} THEN 30 ELSE 31

\* datetime.date(y, m, d): ValueError for a day the calendar does not have.
datetime_date(y, m, d) ==
    IF y \in 1..9999 /\ m \in 1..12 /\ d \in 1..DaysInMonth(y, m)
    THEN Date(y, m, d)
    ELSE Raise("ValueError")

\* time.strptime(value, fmt), reduced to the year, month and day it finds:
\* ValueError when the format does not match, when data remains after the
\* match, and when the day is not one of the calendar.
DateOf(value, m) ==
    IF ~m.ok \/ m.end # Len(value) + 1 THEN Raise("ValueError")
    ELSE datetime_date(m.year, m.month, m.day)

strptime(value, fmt) ==
    DateOf(value, MatchFormat(value, 1, fmt,
              [ok |-> TRUE, year |-> 1900, month |-> 1, day |-> 1, end |-> 1]))

\* '%Y/%m/%d', as its directives and literal characters.
DEFAULT_DATEFMT == <<"%Y", "/", "%m", "/", "%d">>

\* FMPImporter.datefmt: the importer is built without a datefmt.
datefmt == DEFAULT_DATEFMT

-----------------------------------------------------------------------------
(* FMPImporter: type coercion.                                             *)

\* try: return float(value); except ValueError: return None
FloatOrNone(f) == IF f.type = "raise" THEN None ELSE f

\* The body of format_number after re.sub(r'[^\.\d]', '', value).
NumberOf(stripped) ==
    IF stripped = << >> THEN None ELSE FloatOrNone(float(stripped))

format_number(value) ==
    NumberOf(SelectSeq(value, LAMBDA c : c \in Digits \cup {"."}))

format_date(value) ==
    IF value = << >> THEN None ELSE strptime(value, datefmt)

\* flexitime(value) or datetime.time(): None and midnight are the falsy results
\* of flexitime, both replaced by midnight; an exception is not caught.
OrMidnight(t) == IF t = None THEN Time(0, 0, 0) ELSE t

format_time(value) == OrMidnight(flexitime(value))

format_text(value) == Text(Strip(value))

format_value(kind, value) ==
    CASE kind = "NUMBER" -> format_number(value)
      [] kind = "DATE"   -> format_date(value)
      [] kind = "TIME"   -> format_time(value)
      [] OTHER           -> format_text(value)

-----------------------------------------------------------------------------
(* XMLNode and the attributes of an element.                               *)

\* The attributes of an element: the names it has, and their values. NAME,
\* TYPE, EMPTYOK and RECORDID are atomic, MAXREPEAT is text (int parses it).
Attrs(keys, name, kind, maxrepeat, emptyok, recordid) ==
    [keys |-> keys, NAME |-> name, TYPE |-> kind, MAXREPEAT |-> maxrepeat,
     EMPTYOK |-> emptyok, RECORDID |-> recordid]

NoAttrs == Attrs({}, "", "", << >>, "", "")

FieldAttrs(name, kind, maxrepeat, emptyok) ==
    Attrs({"NAME", "TYPE", "MAXREPEAT", "EMPTYOK"}, name, kind, maxrepeat,
          emptyok, "")

RowAttrs(recordid) == Attrs({"RECORDID"}, "", "", << >>, "", recordid)

\* XMLNode(name, attrs): text '' and no children.
XMLNode(name, attrs) ==
    [name |-> name, attrs |-> attrs, text |-> << >>, children |-> << >>]

-----------------------------------------------------------------------------
(* FMPImporter: the field registry and the formatting of a row.            *)

\* A dict that puts the key it is given last, also a key it has.
SetItem_last(flds, name, tuple) ==
    Append(SelectSeq(flds, LAMBDA f : f.name # name), tuple)

\* self.fields[name] = tuple, on an OrderedDict: a new key goes last, a key
\* the dict has keeps its place and takes the new value.
SetItem(flds, name, tuple) ==
    IF \E k \in 1..Len(flds) : flds[k].name = name
    THEN [k \in 1..Len(flds) |->
             IF flds[k].name = name THEN tuple ELSE flds[k]]
    ELSE Append(flds, tuple)

\* add_field(node): the registry after it, and the exception it raised. The
\* attributes are read in the order NAME, TYPE, MAXREPEAT, EMPTYOK, and the
\* registry is assigned last.
\* add_field after maxrepeat = int(node.attrs['MAXREPEAT']).
FieldWith(flds, a, maxrepeat) ==
    IF maxrepeat.type = "raise"
    THEN [fields |-> flds, exc |-> "ValueError"]
    ELSE IF "EMPTYOK" \notin a.keys
         THEN [fields |-> flds, exc |-> "KeyError"]
         ELSE [fields |-> SetItem(flds, a.NAME,
                              [name |-> a.NAME, kind |-> a.TYPE,
                               maxrepeat |-> maxrepeat.n,
                               empty |-> (a.EMPTYOK = "YES")]),
               exc |-> "none"]

add_field(flds, node) ==
    IF {"NAME", "TYPE", "MAXREPEAT"} \ node.attrs.keys # {}
    THEN [fields |-> flds, exc |-> "KeyError"]
    ELSE FieldWith(flds, node.attrs, int(node.attrs.MAXREPEAT))

\* add_database(node): the importer keeps the node.
add_database(node) == node

field_names(flds) == [k \in 1..Len(flds) |-> flds[k].name]

\* self.fields[key]
FieldOf(flds, key) == CHOOSE f \in {flds[k] : k \in 1..Len(flds)} : f.name = key

\* new_dic with the item (key, v) before the items of rest.
WithItem(key, v, rest) ==
    IF rest.type = "raise" THEN rest
    ELSE [type |-> "dict",
          items |-> <<[key |-> key, value |-> v]>> \o rest.items]

RECURSIVE format_items(_, _, _)
RECURSIVE format_item(_, _, _, _)
\* The loop of format_dict over the items from k on: the formatted items, or
\* the ValueError of the first value that cannot be formatted.
format_items(flds, dic, k) ==
    IF k > Len(dic) THEN [type |-> "dict", items |-> << >>]
    ELSE format_item(flds, dic, k,
            format_value(FieldOf(flds, dic[k].key).kind, dic[k].value))

\* One round of the loop, v being what format_value gave for item k.
format_item(flds, dic, k, v) ==
    IF v.type = "raise" THEN v
    ELSE WithItem(dic[k].key, v, format_items(flds, dic, k + 1))

\* format_dict(dic): the ValueError is printed and raised again.
format_dict(flds, dic) == format_items(flds, dic, 1)

RECURSIVE TextsOf(_, _)
\* [n.text for n in ids]
TextsOf(heap, ids) ==
    IF ids = << >> THEN << >>
    ELSE <<heap[Head(ids)].text>> \o TextsOf(heap, Tail(ids))

\* [col.text for col in cols]: the text of the COL, not of its DATA.
RowVals_coltext(heap, cols) == TextsOf(heap, cols)

RECURSIVE RowVals(_, _)
\* [data.text for col in cols for data in col.children]
RowVals(heap, cols) ==
    IF cols = << >> THEN << >>
    ELSE TextsOf(heap, heap[Head(cols)].children) \o RowVals(heap, Tail(cols))

Min(a, b) == IF a < b THEN a ELSE b

\* OrderedDict(zip(names, vals)): as long as the shorter of the two.
Zip(names, vals) ==
    [k \in 1..Min(Len(names), Len(vals)) |-> [key |-> names[k], value |-> vals[k]]]

format_node(heap, flds, node) ==
    format_dict(flds, Zip(field_names(flds),
                          RowVals(heap, heap[node].children)))

\* import_node(node): what the importer does with the node it is given. The
\* importer of the module prints the RECORDID attribute (KeyError without
\* one); an importer that wants the values calls format_node on the node.
import_node(imp, heap, flds, node) ==
    IF imp = "formatting" THEN format_node(heap, flds, node)
    ELSE IF "RECORDID" \in heap[node].attrs.keys
         THEN [type |-> "printed", s |-> heap[node].attrs.RECORDID]
         ELSE Raise("KeyError")

-----------------------------------------------------------------------------
(* FMPXMLHandler.                                                          *)

\* current_node: the top of the stack, 0 (None) when the stack is empty.
current_node(depth) == IF depth # << >> THEN depth[Len(depth)] ELSE 0

\* push_node(node): the heap and the stack after it. The node is allocated
\* next in the heap.
push_node(heap, depth, node) ==
    [nodes |-> IF current_node(depth) # 0
               THEN [Append(heap, node) EXCEPT
                        ![current_node(depth)].children = Append(@, Len(heap) + 1)]
               ELSE Append(heap, node),
     depth |-> Append(depth, Len(heap) + 1)]

\* pop_node(): list.pop() raises IndexError on an empty list.
pop_node(depth) ==
    IF depth = << >>
    THEN [node |-> 0, depth |-> depth, exc |-> "IndexError"]
    ELSE [node |-> depth[Len(depth)],
          depth |-> SubSeq(depth, 1, Len(depth) - 1),
          exc |-> "none"]

startElement(heap, depth, name, attrs) ==
    push_node(heap, depth, XMLNode(name, attrs))

\* children[:] = children: the row stays in its parent.
AllButLast_keep(children) == children

\* children[:-1]
AllButLast(children) == SubSeq(children, 1, Len(children) - 1)

\* A tuple that has lost COL.
TextElements_nocol == {"ROW", "DATA"}

\* The element names whose text characters() keeps.
TextElements == {"ROW", "COL", "DATA"}

\* characters(content): the heap after it, and the exception it raised
\* (None has no attribute name).
characters(heap, depth, content) ==
    IF current_node(depth) = 0 THEN [nodes |-> heap, exc |-> "AttributeError"]
    ELSE IF heap[current_node(depth)].name \in TextElements
         THEN [nodes |-> [heap EXCEPT ![current_node(depth)].text = @ \o content],
               exc |-> "none"]
         ELSE [nodes |-> heap, exc |-> "none"]

\* The handler's and the importer's state.
Handler(heap, depth, flds, db, log, exc) ==
    [nodes |-> heap, depth |-> depth, fields |-> flds, database |-> db,
     importLog |-> log, exc |-> exc]

\* What an invocation of import_node leaves in the log: the argument it was
\* given and what the importer made of it.
Invocation(imp, heap, flds, node) ==
    [arg |-> [type |-> "XMLNode", id |-> node],
     result |-> import_node(imp, heap, flds, node)]

\* The ROW branch of endElement after import_node(node), whose invocation
\* is inv: the parent's children without their last, unless it raised.
AfterImport(heap, depth, flds, db, log, inv) ==
    IF inv.result.type = "raise"
    THEN Handler(heap, depth, flds, db, Append(log, inv), inv.result.exc)
    ELSE IF current_node(depth) = 0
         THEN Handler(heap, depth, flds, db, Append(log, inv), "AttributeError")
         ELSE Handler([heap EXCEPT ![current_node(depth)].children = AllButLast(@)],
                      depth, flds, db, Append(log, inv), "none")

\* The ROW branch of endElement, after the pop.
endRow(imp, heap, depth, flds, db, log, node) ==
    AfterImport(heap, depth, flds, db, log, Invocation(imp, heap, flds, node))

\* The FIELD branch of endElement, after the pop; af is what add_field did.
AfterField(heap, depth, db, log, af) ==
    Handler(heap, depth, af.fields, db, log, af.exc)

\* elif name == 'ROW': import_node is called for this end-tag.
IsRowEnd_col(name) == name \in {"ROW", "COL"}

IsRowEnd(name) == name = "ROW"

\* endElement(name) after node = self.pop_node(), which is p.
Dispatch(imp, heap, flds, db, log, name, p) ==
    CASE name = "DATABASE" ->
           Handler(heap, p.depth, flds, add_database(p.node), log, "none")
      [] name = "FIELD" ->
           AfterField(heap, p.depth, db, log, add_field(flds, heap[p.node]))
      [] IsRowEnd(name) ->
           endRow(imp, heap, p.depth, flds, db, log, p.node)
      [] OTHER ->
           Handler(heap, p.depth, flds, db, log, "none")

\* endElement(name): the state after it, with the exception it raised.
endElement(imp, heap, depth, flds, db, log, name) ==
    IF pop_node(depth).exc # "none"
    THEN Handler(heap, depth, flds, db, log, pop_node(depth).exc)
    ELSE Dispatch(imp, heap, flds, db, log, name, pop_node(depth))

-----------------------------------------------------------------------------
(* The documents: what xml.sax.parse reads and delivers to the handler.    *)

\* The element names of the documents, among FMP_ELEMENTS.
Tags == {"FMPXMLRESULT", "DATABASE", "METADATA", "FIELD", "RESULTSET",
         "ROW", "COL", "DATA"}

\* The place of an element among the children of FMPXMLRESULT, which come
\* in this order and once each.
Rank(name) ==
    CASE name = "DATABASE" -> 1 [] name = "METADATA" -> 2
      [] name = "RESULTSET" -> 3 [] OTHER -> 0

\* The export grammar: the elements that may come next inside the open
\* element parent ("" is the document), whose children so far are kids.
Children(parent, kids) ==
    CASE parent = ""             -> {"FMPXMLRESULT"}
      [] parent = "FMPXMLRESULT" ->
           {n \in {"DATABASE", "METADATA", "RESULTSET"} :
               \A k \in kids : Rank(k) < Rank(n)}
      [] parent = "METADATA"     -> {"FIELD"}
      [] parent = "RESULTSET"    -> {"ROW"}
      [] parent = "ROW"          -> {"COL"}
      [] parent = "COL"          -> {"DATA"}
      [] OTHER                   -> {}

\* The element names of the arbitrary documents.
FreeTags == {"DATABASE", "FIELD", "RESULTSET", "ROW", "COL", "DATA"}

\* The attributes the FIELD elements of the documents have: two fields and
\* a FIELD that repeats a NAME.
FieldChoices ==
    {FieldAttrs("Qty", "NUMBER", <<"1">>, "YES"),
     FieldAttrs("Day", "DATE", <<"1">>, "NO"),
     FieldAttrs("Qty", "TEXT", <<"2">>, "NO")}

\* A FIELD whose MAXREPEAT is no integer, which the grammar does not allow.
BadField == FieldAttrs("Day", "TIME", <<"x">>, "YES")

\* The attributes an element of the documents may have. The grammar gives
\* every ROW a RECORDID and every FIELD an integer MAXREPEAT.
AttrChoices(name, conf) ==
    CASE name = "FIELD" ->
           IF conf THEN FieldChoices ELSE FieldChoices \cup {BadField}
      [] name = "ROW"   ->
           IF conf THEN {RowAttrs("r")} ELSE {RowAttrs("r"), NoAttrs}
      [] OTHER          -> {NoAttrs}

\* The names of the end-tags that come while no element is open.
StrayTags == {"ROW", "DATA"}

\* The character data of the documents.
Contents == {<<"4", "2">>}

Importers == {"default", "formatting"}

NoEvent == [type |-> "none", name |-> "", content |-> << >>]

\* The name of the innermost open element, "" when none is open.
OpenName == IF open = << >> THEN "" ELSE doc[open[Len(open)]].name

\* The names of the elements the innermost open element holds so far.
OpenKids ==
    IF open = << >> THEN {}
    ELSE {doc[k].name : k \in {j \in 1..Len(doc) : doc[j].parent = open[Len(open)]}}

\* A parse that catches what a callback raises and goes on.
Running_on == TRUE

\* importfile: xml.sax.parse delivers events until a callback raises; the
\* exception leaves parse and importfile, and nothing is delivered after it.
Running == error = "none"

HandlerInit ==
    /\ nodes = << >>
    /\ _depth = << >>
    /\ fields = << >>
    /\ database = 0
    /\ importLog = << >>
    /\ error = "none"
    /\ open = << >>
    /\ doc = << >>
    /\ ended = << >>
    /\ lastEvent = NoEvent
    /\ nchars = 0

Init ==
    /\ HandlerInit
    /\ importer \in Importers
    /\ conforming \in BOOLEAN
    /\ arg = << >>
    /\ out = Pending

\* A start-tag: the document has one root element, and at most the bounded
\* number of elements.
StartTag(name, attrs) ==
    /\ Running
    /\ Len(doc) < (IF conforming THEN MaxNodes ELSE MaxFreeNodes)
    /\ IF open = << >> THEN doc = << >> ELSE TRUE
    /\ name \in (IF conforming THEN Children(OpenName, OpenKids) ELSE FreeTags)
    /\ nodes' = startElement(nodes, _depth, name, attrs).nodes
    /\ _depth' = startElement(nodes, _depth, name, attrs).depth
    /\ doc' = Append(doc, [name |-> name, attrs |-> attrs,
                           parent |-> IF open = << >> THEN 0 ELSE open[Len(open)],
                           chars |-> << >>])
    /\ open' = Append(open, Len(doc) + 1)
    /\ lastEvent' = [type |-> "start", name |-> name, content |-> << >>]
    /\ UNCHANGED <<fields, database, importer, importLog, error, ended,
                   conforming, nchars, arg, out>>

\* Character data, inside the innermost open element.
Characters(content) ==
    /\ Running
    /\ open # << >>
    /\ nchars < MaxChars
    /\ nodes' = characters(nodes, _depth, content).nodes
    /\ error' = characters(nodes, _depth, content).exc
    /\ doc' = [doc EXCEPT ![open[Len(open)]].chars = @ \o content]
    /\ nchars' = nchars + 1
    /\ lastEvent' = [type |-> "characters", name |-> "", content |-> content]
    /\ UNCHANGED <<_depth, fields, database, importer, importLog, open, ended,
                   conforming, arg, out>>

\* What the handler's state becomes.
Becomes(h) ==
    /\ nodes' = h.nodes
    /\ _depth' = h.depth
    /\ fields' = h.fields
    /\ database' = h.database
    /\ importLog' = h.importLog
    /\ error' = h.exc

\* The end-tag of the element id, which brings the handler to h.
Ends(id, h) ==
    /\ Becomes(h)
    /\ ended' = Append(ended, [id |-> id, ok |-> h.exc = "none"])

\* The end-tag of the innermost open element.
EndTag ==
    /\ Running
    /\ open # << >>
    /\ Ends(open[Len(open)],
            endElement(importer, nodes, _depth, fields, database, importLog,
                       OpenName))
    /\ open' = SubSeq(open, 1, Len(open) - 1)
    /\ lastEvent' = [type |-> "end", name |-> OpenName, content |-> << >>]
    /\ UNCHANGED <<importer, doc, conforming, nchars, arg, out>>

\* An end-tag while no element is open: the handler called by a driver that
\* does not check the nesting.
StrayEndTag(name) ==
    /\ Running
    /\ ~conforming
    /\ open = << >>
    /\ Becomes(endElement(importer, nodes, _depth, fields, database,
                          importLog, name))
    /\ lastEvent' = [type |-> "stray end", name |-> name, content |-> << >>]
    /\ UNCHANGED <<importer, open, doc, ended, conforming, nchars, arg, out>>

Next ==
    \/ \E name \in Tags : \E attrs \in AttrChoices(name, conforming) :
          StartTag(name, attrs)
    \/ \E content \in Contents : Characters(content)
    \/ EndTag
    \/ \E name \in StrayTags : StrayEndTag(name)

Spec == Init /\ [][Next]_vars

-----------------------------------------------------------------------------
(* The conversions of one value: format_value and flexitime on the strings *)
(* over an alphabet, and on some longer ones.                              *)

Alphabet == {"1", "7", ":", ".", " ", "p", "m"}

Strings(alphabet, n) == UNION {[1..k -> alphabet] : k \in 0..n}

Samples ==
    {<<"2", "0", "2", "0", "/", "0", "1", "/", "1", "5">>,
     <<"2", "0", "2", "1", "/", "0", "2", "/", "2", "9">>,
     <<"2", "0", "2", "0", "/", "1", "/", "5">>,
     <<"1", "5", "-", "0", "1", "-", "2", "0", "2", "0">>,
     <<"$", "1", ",", "2", "3", "4", ".", "5", "6">>,
     <<"1", ".", "2", ".", "3">>,
     <<"a", "b", "c">>,
     <<"3", ":", "3", "0", " ", "p", "m">>,
     <<"3", ".", "3", "p", "m">>,
     <<"2", "4", ":", "0", "0">>,
     <<"1", "2", ":", "0", "0", ":", "5", "9">>,
     <<"1", "2", ":", "0", "0", ":", "7", "5">>,
     <<" ", "1", "2", ".", "5", "0", " ", " ">>}

Inputs == Strings(Alphabet, MaxLen) \cup Samples

\* The declared kinds of a field; CALCULATION stands for any other kind.
Kinds == {"NUMBER", "DATE", "TIME", "TEXT", "CALCULATION"}

Returned(call, kind, value) ==
    [type |-> "returned", call |-> call, kind |-> kind, value |-> value]

InitValue ==
    /\ HandlerInit
    /\ importer = "default"
    /\ conforming = TRUE
    /\ arg \in Inputs
    /\ out = Pending

FormatValue(kind) ==
    /\ out = Pending
    /\ out' = Returned("format_value", kind, format_value(kind, arg))
    /\ UNCHANGED <<nodes, _depth, fields, database, importer, importLog, error,
                   open, doc, ended, lastEvent, conforming, nchars, arg>>

ParseTime ==
    /\ out = Pending
    /\ out' = Returned("flexitime", "", flexitime(arg))
    /\ UNCHANGED <<nodes, _depth, fields, database, importer, importLog, error,
                   open, doc, ended, lastEvent, conforming, nchars, arg>>

NextValue ==
    \/ \E kind \in Kinds : FormatValue(kind)
    \/ ParseTime

SpecValue == InitValue /\ [][NextValue]_vars

-----------------------------------------------------------------------------
(* The formatting of one row: format_node on the rows the handler builds   *)
(* from bounded numbers of COL and DATA elements, against the registries   *)
(* of bounded numbers of fields.                                           *)

\* The handler's heap and stack h after an element that only gets popped.
Closed(h) == [nodes |-> h.nodes, depth |-> pop_node(h.depth).depth]

\* The handler's heap and stack h after character data.
WithText(h, content) ==
    [nodes |-> characters(h.nodes, h.depth, content).nodes, depth |-> h.depth]

RECURSIVE BuildData(_, _)
\* The handler's heap and stack after the DATA elements of texts.
BuildData(h, texts) ==
    IF texts = << >> THEN h
    ELSE BuildData(Closed(WithText(startElement(h.nodes, h.depth, "DATA", NoAttrs),
                                   Head(texts))),
                   Tail(texts))

RECURSIVE BuildCols(_, _)
\* The handler's heap and stack after the COL elements of cols.
BuildCols(h, cols) ==
    IF cols = << >> THEN h
    ELSE BuildCols(Closed(BuildData(startElement(h.nodes, h.depth, "COL", NoAttrs),
                                    Head(cols))),
                   Tail(cols))

\* The heap when the end-tag of a ROW of cols arrives: node 1 is the ROW.
BuildRow(cols) ==
    BuildCols(startElement(<< >>, << >>, "ROW", RowAttrs("r")), cols).nodes

DataSamples == {<<"4", "2">>, <<"x", " ">>, <<"1", ":", "3", "0">>}

\* The rows: up to MaxCols COL elements of up to MaxData DATA elements.
Rows == UNION {[1..n -> Strings(DataSamples, MaxData)] : n \in 0..MaxCols}

FieldNames == <<"A", "B", "C", "D", "E">>

\* The registries: up to MaxCols fields, named in order, of any kinds.
Registries ==
    UNION {{[k \in 1..n |-> [name |-> FieldNames[k], kind |-> kinds[k],
                            maxrepeat |-> 1, empty |-> TRUE]] :
               kinds \in [1..n -> Kinds \ {"CALCULATION"}]} : n \in 1..MaxCols}

InitRow ==
    /\ HandlerInit
    /\ importer = "formatting"
    /\ conforming = TRUE
    /\ arg \in Rows
    /\ out \in [type : {"registry"}, fields : Registries]

\* The end-tag of the row arrives when the header has registered the fields.
FormatRow ==
    /\ out.type = "registry"
    /\ nodes' = BuildRow(arg)
    /\ fields' = out.fields
    /\ out' = Returned("format_node", "", format_node(BuildRow(arg), out.fields, 1))
    /\ UNCHANGED <<_depth, database, importer, importLog, error,
                   open, doc, ended, lastEvent, conforming, nchars, arg>>

NextRow == FormatRow

SpecRow == InitRow /\ [][NextRow]_vars

-----------------------------------------------------------------------------
(* The document, as the parser delivered it: what the claims are stated    *)
(* against.                                                                *)

Range(f) == {f[k] : k \in DOMAIN f}

RECURSIVE InSubtree(_, _)
\* Element id is element r or lies inside it.
InSubtree(r, id) == id # 0 /\ (id = r \/ InSubtree(r, doc[id].parent))

\* The elements of the subtree of element r.
Subtree(r) == {i \in 1..Len(doc) : InSubtree(r, i)}

RowElements == {i \in 1..Len(doc) : doc[i].name = "ROW"}

\* The elements outside every ROW: the header and the containers.
OutsideRows == {i \in 1..Len(doc) : \A r \in RowElements : ~InSubtree(r, i)}

\* The size of the largest single row of the document.
LargestRow ==
    IF RowElements = {} THEN 0
    ELSE CHOOSE n \in {Cardinality(Subtree(r)) : r \in RowElements} :
            \A r \in RowElements : Cardinality(Subtree(r)) <= n

RECURSIVE ReachFrom(_)
\* The nodes reachable from the nodes ids of the heap through children.
ReachFrom(ids) ==
    IF ids = {} THEN {}
    ELSE ids \cup ReachFrom(UNION {Range(nodes[i].children) : i \in ids})

\* The nodes reachable from the node stack.
Live == ReachFrom(Range(_depth))

\* The place of element id among the end-tags delivered, 0 when still open.
EndedAt(id) ==
    IF \E k \in 1..Len(ended) : ended[k].id = id
    THEN CHOOSE k \in 1..Len(ended) : ended[k].id = id
    ELSE 0

\* The rows whose end-tag the handler has handled without raising.
HandledRows == {ended[k].id : k \in {j \in 1..Len(ended) :
                   ended[j].ok /\ doc[ended[j].id].name = "ROW"}}

-----------------------------------------------------------------------------
(* C1. Streaming memory: once the end-tag of a ROW has been handled, no    *)
(* child list holds that row any more, so the nodes reachable from the     *)
(* node stack are at most the elements outside the rows plus the largest   *)
(* single row, however many rows the document has had.                     *)

RowSubtreeReleased ==
    /\ \A r \in HandledRows : \A n \in 1..Len(nodes) :
           r \notin Range(nodes[n].children)
    /\ Cardinality(Live) <= Cardinality(OutsideRows) + LargestRow

\* Two rows with a child each have come and gone under one parent, which
\* is still open.
TwoRowsReleased ==
    \E r1, r2 \in HandledRows :
        /\ r1 # r2
        /\ doc[r1].parent = doc[r2].parent
        /\ doc[r1].parent \in Range(open)
        /\ Cardinality(Subtree(r1)) >= 2
        /\ Cardinality(Subtree(r2)) >= 2
        /\ Cardinality(Live) < Len(doc) - 2

-----------------------------------------------------------------------------
(* C2. import_node is invoked exactly once for each ROW end-tag, in        *)
(* document order, for no other end-tag, and only when every element       *)
(* inside the row has had its end-tag.                                     *)

RowEndTags == SelectSeq(ended, LAMBDA e : doc[e.id].name = "ROW")

ImportOncePerRow ==
    /\ Len(importLog) = Len(RowEndTags)
    /\ \A k \in 1..Len(importLog) :
          /\ importLog[k].arg.id = RowEndTags[k].id
          /\ \A i \in Subtree(importLog[k].arg.id) \ {importLog[k].arg.id} :
                /\ EndedAt(i) # 0
                /\ EndedAt(i) < EndedAt(importLog[k].arg.id)

\* Two rows imported, the first with a COL that was closed before.
TwoRowsImported ==
    /\ Len(importLog) = 2
    /\ Cardinality(Subtree(importLog[1].arg.id)) >= 2
    /\ \E k \in 1..Len(ended) : doc[ended[k].id].name \notin {"ROW", "COL"}

-----------------------------------------------------------------------------
(* C3. As claimed: for a document that follows the grammar, what the       *)
(* importer is given for a row is the Record of typed values.              *)

RECURSIVE DocTexts(_, _)
\* The character data of the elements two levels below element r of the
\* document (the DATA elements of the COL elements of a row), from element i
\* on, in document order.
DocTexts(r, i) ==
    IF i > Len(doc) THEN << >>
    ELSE IF doc[i].parent # 0 /\ doc[doc[i].parent].parent = r
         THEN <<doc[i].chars>> \o DocTexts(r, i + 1)
         ELSE DocTexts(r, i + 1)

\* The registry and the Record of the example: one NUMBER field Qty, 42.0.
QtyRegistry ==
    <<[name |-> "Qty", kind |-> "NUMBER", maxrepeat |-> 1, empty |-> TRUE]>>

QtyRecord ==
    [type |-> "dict",
     items |-> <<[key |-> "Qty", value |-> Float(42, 0)]>>]

(* C3, amended: the importer is given the row's XMLNode, not a Record; an  *)
(* importer that calls format_node on it gets, for a document that follows *)
(* the grammar, the registered fields zipped with the DATA texts of the    *)
(* row and coerced, or the ValueError of the coercion: for the one NUMBER  *)
(* field Qty and the data text "42", the Record {Qty: 42.0}.               *)

-----------------------------------------------------------------------------
(* C6. As claimed: the registry is append-only: no step removes, moves or  *)
(* alters a definition it holds, also when a FIELD repeats a NAME.         *)

RegistryAppendOnly ==
    [][/\ Len(fields') >= Len(fields)
       /\ \A k \in 1..Len(fields) : fields'[k] = fields[k]]_vars

(* C6, amended: field_names() is the sequence of the distinct NAMEs of the *)
(* FIELD elements registered, in the order of their first registration; no *)
(* step removes or moves a definition, DATABASE and ROW end-tags leave the *)
(* registry alone, and a definition is altered only by the end-tag of a    *)
(* FIELD that repeats its NAME, which puts its own definition in its place.*)

\* The FIELD elements add_field has registered, in order.
RegisteredFields ==
    SelectSeq(ended, LAMBDA e : e.ok /\ doc[e.id].name = "FIELD")

\* The definition the FIELD element id declares.
Declared(id) ==
    [name |-> doc[id].attrs.NAME, kind |-> doc[id].attrs.TYPE,
     maxrepeat |-> DigitsVal(doc[id].attrs.MAXREPEAT),
     empty |-> (doc[id].attrs.EMPTYOK = "YES")]

\* The first registration of each NAME, in order.
FirstRegistrations ==
    SelectSeq([k \in 1..Len(RegisteredFields) |-> k],
              LAMBDA k : \A j \in 1..(k - 1) :
                  doc[RegisteredFields[j].id].attrs.NAME
                     # doc[RegisteredFields[k].id].attrs.NAME)

RegistryInOrder ==
    /\ Len(fields) = Len(FirstRegistrations)
    /\ \A k \in 1..Len(fields) :
          fields[k].name
             = doc[RegisteredFields[FirstRegistrations[k]].id].attrs.NAME

RegistryStep ==
    /\ Len(fields') >= Len(fields)
    /\ \A k \in 1..Len(fields) :
          /\ fields'[k].name = fields[k].name
          /\ fields'[k] # fields[k] =>
                /\ lastEvent'.type = "end"
                /\ lastEvent'.name = "FIELD"
                /\ doc[ended'[Len(ended')].id].attrs.NAME = fields[k].name
                /\ fields'[k] = Declared(ended'[Len(ended')].id)
    /\ fields' # fields => lastEvent'.name = "FIELD"

RegistryKeepsOrder == [] RegistryInOrder /\ [][RegistryStep]_vars

\* Two fields are registered, and a FIELD that repeats the NAME of the first
\* has replaced its definition.
FieldRedeclared ==
    /\ Len(fields) = 2
    /\ Len(RegisteredFields) = 3
    /\ fields[1] = Declared(RegisteredFields[3].id)
    /\ fields[1] # Declared(RegisteredFields[1].id)

-----------------------------------------------------------------------------
(* C7. A fatal error unwinds the import: a FIELD whose MAXREPEAT is no     *)
(* integer, an end-tag with no open element, a row the importer cannot     *)
(* take or format each leave an exception, the end-tag that raised is the  *)
(* last one delivered, and once there is an exception no event is handled: *)
(* nothing of the handler, the importer or the log changes any more.       *)

RaiseIsFatal ==
    /\ \A k \in 1..Len(ended) :
          /\ ~ended[k].ok => (k = Len(ended) /\ error # "none")
          /\ (doc[ended[k].id].name = "FIELD"
              /\ int(doc[ended[k].id].attrs.MAXREPEAT).type = "raise")
                => ~ended[k].ok
          /\ (doc[ended[k].id].name = "ROW" /\ importer = "default"
              /\ "RECORDID" \notin doc[ended[k].id].attrs.keys)
                => ~ended[k].ok
    /\ \A k \in 1..Len(importLog) :
          importLog[k].result.type = "raise"
             => (k = Len(importLog) /\ error = importLog[k].result.exc)
    /\ lastEvent.type = "stray end" => error = "IndexError"

NothingAfterError ==
    error # "none" => UNCHANGED <<nodes, _depth, fields, database, importLog,
                                  error, open, doc, ended, lastEvent, nchars>>

FatalErrorUnwinds == [] RaiseIsFatal /\ [][NothingAfterError]_vars

\* The importer could not format the DATE of a row: the import stopped
\* there, with elements still open.
DateAborted ==
    /\ error = "ValueError"
    /\ importLog # << >>
    /\ importLog[Len(importLog)].result.type = "raise"
    /\ open # << >>

-----------------------------------------------------------------------------
(* C9. A character-data event appends its content to the text of the node  *)
(* on top of the stack when that node is a ROW, COL or DATA, and changes   *)
(* nothing otherwise; it never changes another node, attributes, children, *)
(* the stack, the registry or the log.                                     *)

CharactersStep ==
    nchars' # nchars =>
        /\ _depth # << >>
        /\ nodes' = IF nodes[_depth[Len(_depth)]].name \in {"ROW", "COL", "DATA"}
                    THEN [nodes EXCEPT ![_depth[Len(_depth)]].text =
                                           @ \o lastEvent'.content]
                    ELSE nodes
        /\ UNCHANGED <<_depth, fields, database, importLog, error>>

-----------------------------------------------------------------------------
(* C10. As claimed: for a well-nested sequence of events, an importer that *)
(* does not fail and FIELD elements with well-formed attributes, the tree  *)
(* builder never fails: the node stack is the chain of the open elements   *)
(* after each event, also when a ROW is the outermost element.             *)

WellNested == lastEvent.type # "stray end"

ImporterNeverFailed ==
    \A k \in 1..Len(importLog) : importLog[k].result.type # "raise"

FieldsWellFormed ==
    \A i \in 1..Len(doc) :
        doc[i].name = "FIELD" => int(doc[i].attrs.MAXREPEAT).type = "int"

BuilderNeverFails ==
    (WellNested /\ ImporterNeverFailed /\ FieldsWellFormed) =>
        /\ error = "none"
        /\ _depth = open

-----------------------------------------------------------------------------
(* C4. As claimed: a NUMBER that cannot be coerced gives None and a TIME   *)
(* that cannot be coerced gives midnight, neither raising and the TIME     *)
(* never None; TEXT (and any other kind) never fails; only a DATE that is  *)
(* not empty raises.                                                       *)

CoercionPolicy ==
    (out.type = "returned" /\ out.call = "format_value") =>
        /\ out.kind = "NUMBER" => out.value.type \in {"float", "None"}
        /\ out.kind = "TIME" => out.value.type = "time"
        /\ out.kind \notin {"NUMBER", "DATE", "TIME"} => out.value.type = "unicode"
        /\ out.value.type = "raise" => (out.kind = "DATE" /\ arg # << >>)

-----------------------------------------------------------------------------
(* C5. As claimed: flexitime is total: it returns None when the pattern    *)
(* occurs nowhere in the string, and otherwise a time of day with the hour *)
(* in 0..23 and the minute and second in 0..59; it never raises.           *)

FlexitimeTotal ==
    (out.type = "returned" /\ out.call = "flexitime") =>
        IF \E i \in 1..Len(arg) : HoursLen(arg, i) > 0
        THEN /\ out.value.type = "time"
             /\ out.value.hour \in 0..23
             /\ out.value.minute \in 0..59
             /\ out.value.second \in 0..59
        ELSE out.value = None

-----------------------------------------------------------------------------
(* C8. As claimed: the Record format_node gives has its keys in the order  *)
(* of the registry, and maps the k-th field to the coerced DATA text of    *)
(* the k-th COL of the row, for every k up to the number of COL elements.  *)

\* The DATA text of a COL of the row: that of its DATA element.
ColText(col) == IF col = << >> THEN << >> ELSE col[1]

PositionalZip ==
    (out.type = "returned" /\ out.call = "format_node"
     /\ out.value.type = "dict") =>
        /\ Len(out.value.items) = Min(Len(fields), Len(arg))
        /\ \A k \in 1..Len(out.value.items) :
              /\ out.value.items[k].key = fields[k].name
              /\ out.value.items[k].value
                    = format_value(fields[k].kind, ColText(arg[k]))

====
